---- MODULE Spec2Model ----
(***************************************************************************)
(* Model of the post CRUD API: the collection route (GET, POST on          *)
(* /api/posts), the single-resource route (GET, PUT, DELETE on             *)
(* /api/posts/{id}), the zod validator postSchema and the mongoose model   *)
(* Post.  A handler is split at its awaits on the database: the            *)
(* synchronous prefix (body parsing, validation), connectToDB, and the one *)
(* document operation, which the store executes atomically.                *)
(***************************************************************************)
EXTENDS Integers, Sequences, FiniteSets, TLC

VARIABLES
  posts,      \* the Post collection: _id -> document
  nextId,     \* the next _id the driver generates (never reused)
  dbUp,       \* the database server is reachable
  connected,  \* connectToDB has established the shared connection
  req,        \* the handler invocations in flight
  out,        \* the response last sent, with the request it answers
  delOk       \* per _id, the number of DELETEs answered 200

vars == <<posts, nextId, dbUp, connected, req, out, delOk>>

----------------------------------------------------------------------------
(* Bounds *)

MaxReqs == 2
MaxPosts == 2
MaxClock == 1
ConcPosts == 1

Reqs == 1..MaxReqs

\* the readings Date.now() can give
Times == 1..MaxClock

----------------------------------------------------------------------------
(* JSON / BSON values *)

Str(s) == [t |-> "string", s |-> s, n |-> 0]
Num(k) == [t |-> "number", s |-> "", n |-> k]
Date(ms) == [t |-> "date", s |-> "", n |-> ms]
Null == [t |-> "null", s |-> "", n |-> 0]
Undefined == [t |-> "undefined", s |-> "", n |-> 0]

FieldOrder == <<"author", "title", "description", "imageUrl", "createdAt">>
Fields == {FieldOrder[i] : i \in 1..Len(FieldOrder)}

\* strings that `new URL(s)` accepts, among the strings the requests carry
UrlStrings == {"https://example.com/a.jpg", "https://example.com/b.jpg"}

\* date strings the requests carry, with the instant they denote
IsoDates == [s \in {"1970-01-01T00:00:00.001Z", "1970-01-01T00:00:00.002Z"} |->
               IF s = "1970-01-01T00:00:00.001Z" THEN 1 ELSE 2]

\* mongoose's cast of a value to the Date type of Post.createdAt
castDate(v) ==
  IF v.t = "date" THEN v
  ELSE IF v.t \in {"null", "undefined"} \/ v = Str("") THEN Null
  ELSE IF v.t = "number" THEN Date(v.n)
  ELSE IF v.s \in DOMAIN IsoDates THEN Date(IsoDates[v.s])
  ELSE [t |-> "CastError", s |-> v.s, n |-> 0]

----------------------------------------------------------------------------
(* Identifiers *)

HexLen == 24

Oid(k) == [len |-> HexLen, hex |-> TRUE, n |-> k]
NotHexId == [len |-> HexLen, hex |-> FALSE, n |-> 0]
EmptyId == [len |-> 0, hex |-> TRUE, n |-> 0]

\* mongoose.Types.ObjectId.isValid on a string
isValid(id) == id.len = HexLen /\ id.hex

----------------------------------------------------------------------------
(* postSchema *)

\* min(1) forgotten on the text fields
FieldOkNoMin(f, v) ==
  CASE f \in {"author", "title", "description"} -> v.t = "string"
    [] f = "imageUrl" -> v.t = "string" /\ v.s \in UrlStrings
    [] f = "createdAt" -> v.t = "string"

FieldOk(f, v) ==
  CASE f \in {"author", "title", "description"} -> v.t = "string" /\ Len(v.s) >= 1
    [] f = "imageUrl" -> v.t = "string" /\ v.s \in UrlStrings
    [] f = "createdAt" -> v.t = "string"

\* validation that stops at the first offending key
IssuesFirstOnly(o) ==
  LET all == SelectSeq(FieldOrder, LAMBDA f : ~FieldOk(f, o[f]))
  IN IF all = <<>> THEN <<>> ELSE <<all[1]>>

\* the issues zod reports for an object, one per offending key, in key order
Issues(o) == SelectSeq(FieldOrder, LAMBDA f : ~FieldOk(f, o[f]))

NoObject == [f \in Fields |-> Undefined]

\* a parse that accepts every object
safeParseNoCheck(body) ==
  IF body.kind # "object"
    THEN [success |-> FALSE, issues |-> <<"">>, data |-> NoObject]
    ELSE [success |-> TRUE, issues |-> <<>>, data |-> body.o]

\* postSchema.safeParse: a value that is no object gives one issue with an
\* empty path; unknown keys are stripped from data
safeParse(body) ==
  IF body.kind # "object"
    THEN [success |-> FALSE, issues |-> <<"">>, data |-> NoObject]
    ELSE [success |-> Issues(body.o) = <<>>,
          issues |-> Issues(body.o),
          data |-> body.o]

----------------------------------------------------------------------------
(* Request bodies *)

Obj(o) == [kind |-> "object", o |-> o]
NotJson == [kind |-> "badjson", o |-> NoObject]
NotObject == [kind |-> "nonobject", o |-> NoObject]
NoBody == [kind |-> "none", o |-> NoObject]

V1 == [author |-> Str("ann"), title |-> Str("t1"), description |-> Str("d1"),
       imageUrl |-> Str("https://example.com/a.jpg"),
       createdAt |-> Str("1970-01-01T00:00:00.001Z")]
V2 == [author |-> Str("bob"), title |-> Str("t2"), description |-> Str("d2"),
       imageUrl |-> Str("https://example.com/b.jpg"),
       createdAt |-> Str("1970-01-01T00:00:00.002Z")]

Without(o, fs) == [f \in Fields |-> IF f \in fs THEN Undefined ELSE o[f]]

Bodies ==
  {Obj(V1), Obj(V2), NotJson, NotObject}
  \cup {Obj(Without(V1, {f})) : f \in Fields}
  \cup {Obj([V1 EXCEPT ![f] = Str("")]) : f \in Fields \ {"createdAt"}}
  \cup {Obj([V1 EXCEPT !.imageUrl = Str("not a url")]),
        Obj([V1 EXCEPT !.createdAt = Str("yesterday")]),
        Obj(Without(V1, Fields \ {"title"}))}

RequestIds == {Oid(k) : k \in 1..MaxPosts} \cup {NotHexId, EmptyId}

ConcBodies == {Obj(V1), Obj(V2), Obj([V2 EXCEPT !.author = Str("")])}
ConcIds == {Oid(1)}
ConcTimes == {1}

----------------------------------------------------------------------------
(* The Post model and the store *)

\* new Post({title, description, imageUrl, author}): _id is generated and
\* the createdAt default (Date.now) is applied at construction
NewPost(id, data, t) ==
  [id |-> id, author |-> data.author, title |-> data.title,
   description |-> data.description, imageUrl |-> data.imageUrl,
   createdAt |-> Date(t)]

\* save() of a new document: an insert under its _id; the timestamps option
\* sets createdAt only when it is unset, and it is set by the default
Save(store, doc) == (doc.id :> doc) @@ store

\* the document after the update.  With the schema's timestamps option
\* mongoose deletes a truthy createdAt from the update before it is cast and
\* applied; the keys left are $set after casting, an undefined key is
\* skipped.  (updatedAt, which no handler reads, is not modelled.)
ApplyUpdate(old, data) ==
  [id |-> old.id,
   author |-> IF data.author.t = "undefined" THEN old.author ELSE data.author,
   title |-> IF data.title.t = "undefined" THEN old.title ELSE data.title,
   description |-> IF data.description.t = "undefined" THEN old.description
                   ELSE data.description,
   imageUrl |-> IF data.imageUrl.t = "undefined" THEN old.imageUrl
                ELSE data.imageUrl,
   createdAt |-> IF data.createdAt = Str("") THEN castDate(data.createdAt)
                 ELSE old.createdAt]

\* an update that inserts the document when none matches
findByIdAndUpdateUpsert(store, k, data) ==
  LET doc == IF k \in DOMAIN store THEN ApplyUpdate(store[k], data)
             ELSE NewPost(k, data, 1)
  IN [store |-> (k :> doc) @@ store, found |-> {doc}]

\* findByIdAndUpdate(id, data, {new: true}): no upsert; the result is the
\* document after the update, or null
findByIdAndUpdate(store, k, data) ==
  IF k \in DOMAIN store
    THEN LET doc == ApplyUpdate(store[k], data)
         IN [store |-> [store EXCEPT ![k] = doc], found |-> {doc}]
    ELSE [store |-> store, found |-> {}]

\* a delete that finds the document and leaves it in the store
findByIdAndDeleteKeep(store, k) ==
  IF k \in DOMAIN store
    THEN [store |-> store, found |-> {store[k]}]
    ELSE [store |-> store, found |-> {}]

\* findByIdAndDelete(id): the result is the document removed, or null
findByIdAndDelete(store, k) ==
  IF k \in DOMAIN store
    THEN [store |-> [j \in DOMAIN store \ {k} |-> store[j]], found |-> {store[k]}]
    ELSE [store |-> store, found |-> {}]

findById(store, k) == IF k \in DOMAIN store THEN {store[k]} ELSE {}

----------------------------------------------------------------------------
(* Requests in flight and the response last sent *)

Response(status, msg, fields, docs, detail) ==
  [status |-> status, msg |-> msg, fields |-> fields, docs |-> docs,
   detail |-> detail]

NoResponse == Response(0, "", <<>>, {}, FALSE)

NoDoc == [id |-> 0, author |-> Undefined, title |-> Undefined,
          description |-> Undefined, imageUrl |-> Undefined,
          createdAt |-> Undefined]

\* a handler invocation: where it is, its inputs (body is NoBody until the
\* handler has read it), whether it has called connectToDB, and the document
\* POST has constructed
Idle == [pc |-> "idle", method |-> "NONE", id |-> EmptyId, body |-> NoBody,
         dbAccess |-> FALSE, doc |-> NoDoc]

Begin(method, id, body) == [Idle EXCEPT !.pc = "connect", !.method = method,
                                        !.id = id, !.body = body]

\* the invocation q answered: its response and what it wrote to console.error
Answer(q, res, logged) ==
  [method |-> q.method, id |-> q.id, body |-> q.body, dbAccess |-> q.dbAccess,
   doc |-> q.doc, res |-> res, logged |-> logged]

\* no response on the wire: out holds a response from the step that sends it
\* until the next request is accepted
Quiet == Answer(Idle, NoResponse, "")

Free(r) == req[r].pc = "idle"

\* posts under construction whose _id is not generated yet
Pending == {r \in Reqs : req[r].method = "POST" /\ req[r].pc = "connect"}

Init ==
  /\ posts = <<>>
  /\ nextId = 1
  /\ dbUp \in BOOLEAN
  /\ connected = FALSE
  /\ req = [r \in Reqs |-> Idle]
  /\ out = Quiet
  /\ delOk = [k \in 1..MaxPosts |-> 0]

\* the handler of req[r] returns
Return(r, res, logged) ==
  /\ out' = Answer(req[r], res, logged)
  /\ req' = [req EXCEPT ![r] = Idle]

\* a handler that returns before its first await on the database
ReturnAtOnce(q, res, logged) ==
  /\ out' = Answer(q, res, logged)
  /\ req' = req

----------------------------------------------------------------------------
(* connectToDB: the shared, lazily initialised connection *)

ConnectOk == connected \/ dbUp

----------------------------------------------------------------------------
(* GET /api/posts *)

ListFailure == Response(500, "Failed to retrieve posts", <<>>, {}, TRUE)

ListStart(r) ==
  /\ Free(r)
  /\ req' = [req EXCEPT ![r] = Begin("LIST", EmptyId, NoBody)]
  /\ out' = Quiet
  /\ UNCHANGED <<posts, nextId, dbUp, connected, delOk>>

ListConnect(r) ==
  /\ req[r].pc = "connect" /\ req[r].method = "LIST"
  /\ connected' = ConnectOk
  /\ IF ConnectOk
       THEN /\ req' = [req EXCEPT ![r] = [@ EXCEPT !.pc = "op", !.dbAccess = TRUE]]
            /\ out' = out
       ELSE /\ out' = Answer([req[r] EXCEPT !.dbAccess = TRUE], ListFailure, "db")
            /\ req' = [req EXCEPT ![r] = Idle]
  /\ UNCHANGED <<posts, nextId, dbUp, delOk>>

ListFind(r) ==
  /\ req[r].pc = "op" /\ req[r].method = "LIST"
  /\ IF dbUp
       THEN Return(r, Response(200, "", <<>>, {posts[k] : k \in DOMAIN posts}, FALSE), "")
       ELSE Return(r, ListFailure, "db")
  /\ UNCHANGED <<posts, nextId, dbUp, connected, delOk>>

----------------------------------------------------------------------------
(* POST /api/posts *)

PostFailure == Response(500, "Failed to create Post", <<>>, {}, FALSE)

PostStart(r, bodies, cap) ==
  /\ Free(r)
  /\ nextId + Cardinality(Pending) <= cap
  /\ \E body \in bodies :
       LET q == Begin("POST", EmptyId, body)
           parsedBody == safeParse(body)
       IN IF body.kind = "badjson"
            THEN ReturnAtOnce(q, PostFailure, "json")
          ELSE IF ~parsedBody.success
            THEN ReturnAtOnce(q, Response(400, "", parsedBody.issues, {}, FALSE), "")
          ELSE /\ req' = [req EXCEPT ![r] = q]
               /\ out' = Quiet
  /\ UNCHANGED <<posts, nextId, dbUp, connected, delOk>>

PostConnect(r, times) ==
  /\ req[r].pc = "connect" /\ req[r].method = "POST"
  /\ connected' = ConnectOk
  /\ IF ConnectOk
       THEN /\ \E t \in times :
                 req' = [req EXCEPT ![r] =
                   [@ EXCEPT !.pc = "op", !.dbAccess = TRUE,
                             !.doc = NewPost(nextId, safeParse(req[r].body).data, t)]]
            /\ nextId' = nextId + 1
            /\ out' = out
       ELSE /\ out' = Answer([req[r] EXCEPT !.dbAccess = TRUE], PostFailure, "db")
            /\ req' = [req EXCEPT ![r] = Idle]
            /\ nextId' = nextId
  /\ UNCHANGED <<posts, dbUp, delOk>>

PostSave(r) ==
  /\ req[r].pc = "op" /\ req[r].method = "POST"
  /\ IF dbUp
       THEN /\ posts' = Save(posts, req[r].doc)
            /\ Return(r, Response(201, "Post has been created", <<>>, {}, FALSE), "")
       ELSE /\ posts' = posts
            /\ Return(r, PostFailure, "db")
  /\ UNCHANGED <<nextId, dbUp, connected, delOk>>

----------------------------------------------------------------------------
(* GET /api/posts/{id} *)

InvalidId == Response(400, "Invalid ID format", <<>>, {}, FALSE)
NotFound == Response(404, "Post not found", <<>>, {}, FALSE)
GetFailure == Response(500, "Failed to fetch post", <<>>, {}, FALSE)
ServerError == Response(500, "Internal server error", <<>>, {}, FALSE)

\* connectToDB is awaited first, and the identifier is checked after it
ConnectThenCheckId(r, failure) ==
  /\ connected' = ConnectOk
  /\ IF ~ConnectOk
       THEN /\ out' = Answer([req[r] EXCEPT !.dbAccess = TRUE], failure, "db")
            /\ req' = [req EXCEPT ![r] = Idle]
     ELSE IF ~isValid(req[r].id)
       THEN /\ out' = Answer([req[r] EXCEPT !.dbAccess = TRUE], InvalidId, "")
            /\ req' = [req EXCEPT ![r] = Idle]
     ELSE /\ req' = [req EXCEPT ![r] = [@ EXCEPT !.pc = "op", !.dbAccess = TRUE]]
          /\ out' = out

GetStart(r, ids) ==
  /\ Free(r)
  /\ \E id \in ids : req' = [req EXCEPT ![r] = Begin("GET", id, NoBody)]
  /\ out' = Quiet
  /\ UNCHANGED <<posts, nextId, dbUp, connected, delOk>>

GetConnect(r) ==
  /\ req[r].pc = "connect" /\ req[r].method = "GET"
  /\ ConnectThenCheckId(r, GetFailure)
  /\ UNCHANGED <<posts, nextId, dbUp, delOk>>

GetFindById(r) ==
  /\ req[r].pc = "op" /\ req[r].method = "GET"
  /\ LET post == findById(posts, req[r].id.n)
     IN IF ~dbUp THEN Return(r, GetFailure, "db")
        ELSE IF post = {} THEN Return(r, NotFound, "")
        ELSE Return(r, Response(200, "", <<>>, post, FALSE), "")
  /\ UNCHANGED <<posts, nextId, dbUp, connected, delOk>>

----------------------------------------------------------------------------
(* PUT /api/posts/{id} *)

PutStart(r, ids, bodies) ==
  /\ Free(r)
  /\ \E id \in ids :
       IF ~isValid(id)
         THEN ReturnAtOnce(Begin("PUT", id, NoBody), InvalidId, "")
         ELSE \E body \in bodies :
           LET q == Begin("PUT", id, body)
               parseResult == safeParse(body)
           IN IF body.kind = "badjson"
                THEN ReturnAtOnce(q, ServerError, "json")
              ELSE IF ~parseResult.success
                THEN ReturnAtOnce(q, Response(400, "", parseResult.issues, {}, FALSE), "")
              ELSE /\ req' = [req EXCEPT ![r] = q]
                   /\ out' = Quiet
  /\ UNCHANGED <<posts, nextId, dbUp, connected, delOk>>

PutConnect(r) ==
  /\ req[r].pc = "connect" /\ req[r].method = "PUT"
  /\ connected' = ConnectOk
  /\ IF ConnectOk
       THEN /\ req' = [req EXCEPT ![r] = [@ EXCEPT !.pc = "op", !.dbAccess = TRUE]]
            /\ out' = out
       ELSE /\ out' = Answer([req[r] EXCEPT !.dbAccess = TRUE], ServerError, "db")
            /\ req' = [req EXCEPT ![r] = Idle]
  /\ UNCHANGED <<posts, nextId, dbUp, delOk>>

PutFindByIdAndUpdate(r) ==
  /\ req[r].pc = "op" /\ req[r].method = "PUT"
  /\ LET updatedPost == findByIdAndUpdate(posts, req[r].id.n,
                                          safeParse(req[r].body).data)
     IN IF ~dbUp
          THEN /\ posts' = posts
               /\ Return(r, ServerError, "db")
          ELSE /\ posts' = updatedPost.store
               /\ IF updatedPost.found = {}
                    THEN Return(r, NotFound, "")
                    ELSE Return(r, Response(200, "Post updated successfully", <<>>,
                                            updatedPost.found, FALSE), "")
  /\ UNCHANGED <<nextId, dbUp, connected, delOk>>

----------------------------------------------------------------------------
(* DELETE /api/posts/{id} *)

DeleteStart(r, ids) ==
  /\ Free(r)
  /\ \E id \in ids :
       LET q == Begin("DELETE", id, NoBody)
       IN IF id.len = 0
            THEN ReturnAtOnce(q, Response(400, "ID is required", <<>>, {}, FALSE), "")
            ELSE /\ req' = [req EXCEPT ![r] = q]
                 /\ out' = Quiet
  /\ UNCHANGED <<posts, nextId, dbUp, connected, delOk>>

DeleteConnect(r) ==
  /\ req[r].pc = "connect" /\ req[r].method = "DELETE"
  /\ ConnectThenCheckId(r, ServerError)
  /\ UNCHANGED <<posts, nextId, dbUp, delOk>>

DeleteFindByIdAndDelete(r) ==
  /\ req[r].pc = "op" /\ req[r].method = "DELETE"
  /\ LET deletedPost == findByIdAndDelete(posts, req[r].id.n)
     IN IF ~dbUp
          THEN /\ posts' = posts
               /\ delOk' = delOk
               /\ Return(r, ServerError, "db")
          ELSE /\ posts' = deletedPost.store
               /\ IF deletedPost.found = {}
                    THEN /\ delOk' = delOk
                         /\ Return(r, NotFound, "")
                    ELSE /\ delOk' = [delOk EXCEPT ![req[r].id.n] =
                                        IF @ < 2 THEN @ + 1 ELSE @]
                         /\ Return(r, Response(200, "Post deleted successfully", <<>>,
                                               deletedPost.found, FALSE), "")
  /\ UNCHANGED <<nextId, dbUp, connected>>

----------------------------------------------------------------------------
(* The environment: the database server *)

DbDown ==
  /\ dbUp
  /\ dbUp' = FALSE
  /\ UNCHANGED <<posts, nextId, connected, req, out, delOk>>

DbRecover ==
  /\ ~dbUp
  /\ dbUp' = TRUE
  /\ UNCHANGED <<posts, nextId, connected, req, out, delOk>>

----------------------------------------------------------------------------
(* Specifications *)

Handlers(r, ids, bodies, times, cap) ==
  \/ ListStart(r) \/ ListConnect(r) \/ ListFind(r)
  \/ PostStart(r, bodies, cap) \/ PostConnect(r, times) \/ PostSave(r)
  \/ GetStart(r, ids) \/ GetConnect(r) \/ GetFindById(r)
  \/ PutStart(r, ids, bodies) \/ PutConnect(r) \/ PutFindByIdAndUpdate(r)
  \/ DeleteStart(r, ids) \/ DeleteConnect(r) \/ DeleteFindByIdAndDelete(r)

\* one request at a time, over the full range of identifiers and bodies,
\* with a database that goes down and comes back
Next ==
  \/ \E r \in {1} : Handlers(r, RequestIds, Bodies, Times, MaxPosts)
  \/ DbDown
  \/ DbRecover

Spec == Init /\ [][Next]_vars

\* concurrent requests on the same identifiers, interleaved at their awaits
NextConc ==
  \E r \in Reqs : Handlers(r, ConcIds, ConcBodies, ConcTimes, ConcPosts)

SpecConc == Init /\ [][NextConc]_vars

----------------------------------------------------------------------------
(* Properties *)

Sent == out.res.status # 0

Range(q) == {q[i] : i \in 1..Len(q)}

TextFields == {"author", "title", "description"}

\* a non-empty string
NonEmpty(v) == v.t = "string" /\ v.s # ""

\* a string that is a well-formed URL
WellFormedUrl(v) == v.t = "string" /\ v.s \in UrlStrings

\* non-empty author, title, description and a valid image URL
RequiredPresent(o) == (\A f \in TextFields : NonEmpty(o[f])) /\ WellFormedUrl(o.imageUrl)

\* the payload the validator accepts
ValidPayload(body) ==
  body.kind = "object" /\ RequiredPresent(body.o) /\ body.o.createdAt.t = "string"

\* the fields of a creation input that are missing, empty or no URL
Offending(o) ==
  {f \in TextFields : ~NonEmpty(o[f])}
  \cup (IF WellFormedUrl(o.imageUrl) THEN {} ELSE {"imageUrl"})

\* the handler of req[r] returns from its document operation in this step
OpReturns(r) == req[r].pc = "op" /\ req'[r].pc = "idle"

\* C1 (as stated): a GET, PUT or DELETE with a malformed identifier is
\* answered 400 and its handler has not called connectToDB.
C1_MalformedIdBeforeDatabase ==
  (Sent /\ out.method \in {"GET", "PUT", "DELETE"} /\ ~isValid(out.id))
    => (out.res.status = 400 /\ ~out.dbAccess)

\* C2 (as stated): a POST whose body has non-empty author, title and
\* description and a valid image URL is answered 201 (unless the database
\* failed) and its post is then in the store under the identifier assigned,
\* with those field values.
C2_CreateWithRequiredFields ==
  (Sent /\ out.method = "POST" /\ out.body.kind = "object"
        /\ RequiredPresent(out.body.o) /\ out.logged = "")
    => /\ out.res.status = 201
       /\ out.doc.id \in DOMAIN posts
       /\ \A f \in TextFields \cup {"imageUrl"} : posts[out.doc.id][f] = out.body.o[f]

\* C3: a POST whose JSON object body has a required field missing or empty,
\* or an imageUrl that is no well-formed URL, is answered 400 with an error
\* list holding an entry for each offending field, and the store is unchanged.
C3_InvalidCreateRejected ==
  [][(out' # out /\ out'.method = "POST" /\ out'.body.kind = "object"
        /\ Offending(out'.body.o) # {})
      => (/\ out'.res.status = 400
          /\ Offending(out'.body.o) \subseteq Range(out'.res.fields)
          /\ posts' = posts)]_vars

\* C3 witness: with a post stored, a POST with several offending fields has
\* been answered 400 with more than one entry.
C3_Witness ==
  /\ out.method = "POST" /\ out.res.status = 400
  /\ Cardinality(Offending(out.body.o)) >= 2
  /\ Len(out.res.fields) >= 2
  /\ posts # <<>>

\* C4 (as stated): a GET, PUT or DELETE with a well-formed identifier that
\* no stored post has, with the database reachable, is answered 404 and the
\* store is unchanged.
C4_UnknownIdIs404 ==
  [][(out' # out /\ out'.method \in {"GET", "PUT", "DELETE"} /\ isValid(out'.id)
        /\ out'.id.n \notin DOMAIN posts /\ dbUp)
      => (out'.res.status = 404 /\ posts' = posts)]_vars

\* C4 (amended): the same for GET, DELETE and a PUT whose payload passes
\* validation; a PUT whose payload does not is answered before the lookup.
\* In every such case the store is unchanged.
C4_UnknownIdIs404WhenPayloadValid ==
  [][(out' # out /\ out'.method \in {"GET", "PUT", "DELETE"} /\ isValid(out'.id)
        /\ out'.id.n \notin DOMAIN posts /\ dbUp)
      => (/\ posts' = posts
          /\ (out'.method = "PUT" /\ ~ValidPayload(out'.body))
               => out'.res.status \in {400, 500}
          /\ (out'.method = "PUT" => ValidPayload(out'.body))
               => out'.res.status = 404)]_vars

\* C4 witness: with another post stored, a valid PUT to an identifier no
\* post has was answered 404.
C4_Witness ==
  /\ out.method = "PUT" /\ out.res.status = 404 /\ ValidPayload(out.body)
  /\ posts # <<>> /\ out.id.n \notin DOMAIN posts

\* C5 (as stated): a PUT on an existing post with a payload the validator
\* accepts is answered 200, the stored post then has every payload field
\* (createdAt included) equal to the payload's, the post returned is the
\* stored post, and its identifier and the other posts are unchanged.
C5_UpdateReplacesAllFields ==
  [][\A r \in Reqs :
       (OpReturns(r) /\ req[r].method = "PUT" /\ dbUp
          /\ req[r].id.n \in DOMAIN posts)
       => LET k == req[r].id.n
              o == req[r].body.o
          IN /\ out'.res.status = 200
             /\ DOMAIN posts' = DOMAIN posts
             /\ \A f \in TextFields \cup {"imageUrl"} : posts'[k][f] = o[f]
             /\ posts'[k].createdAt = castDate(o.createdAt)
             /\ posts'[k].id = k
             /\ out'.res.docs = {posts'[k]}
             /\ \A j \in DOMAIN posts \ {k} : posts'[j] = posts[j]]_vars

\* C6: a PUT whose payload the validator rejects (a field missing or
\* ill-formed, a partial payload, a value that is no object) is answered 400
\* and the store is unchanged.
C6_InvalidUpdateRejected ==
  [][(out' # out /\ out'.method = "PUT" /\ isValid(out'.id)
        /\ out'.body.kind \in {"object", "nonobject"} /\ ~ValidPayload(out'.body))
      => (out'.res.status = 400 /\ posts' = posts)]_vars

\* C6 witness: a PUT carrying only a title, for a stored post, was answered
\* 400.
C6_Witness ==
  /\ out.method = "PUT" /\ out.res.status = 400
  /\ out.id.n \in DOMAIN posts
  /\ out.body.kind = "object"
  /\ NonEmpty(out.body.o.title) /\ out.body.o.author.t = "undefined"

\* C7: every stored post has non-empty author, title and description and a
\* well-formed image URL.
C7_StoredPostsValid ==
  \A k \in DOMAIN posts : RequiredPresent(posts[k])

\* C7 witness: a stored post has been updated by a PUT.
C7_Witness ==
  /\ out.method = "PUT" /\ out.res.status = 200
  /\ out.id.n \in DOMAIN posts
  /\ posts[out.id.n].author = out.body.o.author

\* C8 (as stated): a POST that supplies createdAt stores that value; a POST
\* that omits it (and is otherwise valid) still creates the post, with the
\* time of creation.
C8_CreatedAtClientSupplied ==
  (Sent /\ out.method = "POST" /\ out.body.kind = "object"
        /\ RequiredPresent(out.body.o) /\ out.logged = ""
        /\ out.body.o.createdAt.t \in {"string", "undefined"})
    => /\ out.res.status = 201
       /\ out.doc.id \in DOMAIN posts
       /\ IF out.body.o.createdAt.t = "undefined"
            THEN posts[out.doc.id].createdAt \in {Date(t) : t \in Times}
            ELSE posts[out.doc.id].createdAt = castDate(out.body.o.createdAt)

\* C9 (as stated): a request in which connectToDB or the document operation
\* failed is answered 500 with a generic message and without the error.
C9_FailureIsGeneric500 ==
  (Sent /\ out.logged = "db") => (out.res.status = 500 /\ ~out.res.detail)

====
